---- MODULE Spec2Model ----
(***************************************************************************)
(* A model of the slab/region allocator of heap.cpp: my_malloc, my_free,   *)
(* my_leak_check and my_heap_dump over a chain of HeapBlocks whose data    *)
(* areas are divided into regions by inline HeapHeaders.                   *)
(*                                                                         *)
(* Memory is modelled at the places where the code reads it: for every     *)
(* block, the map from data offsets to the header records that are stored  *)
(* there.  Headers that a merge has absorbed are not erased by the code    *)
(* and therefore stay in the map (my_free reads them when it is handed a   *)
(* stale address).  Every other byte of a constructed block reads as the   *)
(* scrub pattern 0xef, which is not a valid signature; payload bytes       *)
(* written by the caller are taken never to spell a valid signature.       *)
(*                                                                         *)
(* Region sizes stay below heap_block_size, so the u32 size field of a     *)
(* region header holds them exactly.                                       *)
(*                                                                         *)
(* A store through a null or MAP_FAILED pointer and a load from an         *)
(* unmapped page end the process with SIGSEGV (status "segv"); abort()     *)
(* ends it with status "aborted".  A process that has died has no address  *)
(* space left: what remains of it is its status and the record of its last *)
(* calls.                                                                  *)
(*                                                                         *)
(* mmap hands out the lowest block address that is not mapped, or fails.   *)
(***************************************************************************)
EXTENDS Integers, Naturals, Sequences, FiniteSets, TLC

\* ---------------------------------------------------------------- constants
heap_block_size == 16384
PtrSize == 8
HeaderSize == 8
DataSize == heap_block_size - PtrSize * 2
NULL == 0
MAP_FAILED == -1
NoHeader == -1

\* ------------------------------------------------------------------- bounds
MaxSlabs == 3
MaxCalls == 4
MaxBig == 1
MaxSize == 40
MaxAlign == 17
MaxWrap == 24

\* The requests <<size, align>> that my_malloc is called with.
Requests == {<<0, 1>>, <<8, 0>>, <<8, 1>>, <<16, 1>>,
             <<16336, 16>>, <<16337, 1>>, <<16377, 1>>}

Slabs == 1..MaxSlabs
Root == 1
Bigs == 1..MaxBig

\* ---------------------------------------------------------------- addresses
BlockAddr(s) == s * heap_block_size
DataAddr(s) == BlockAddr(s) + PtrSize * 2
DataEnd(s) == DataAddr(s) + DataSize
BigAddr(k) == (MaxSlabs + 2 * k) * heap_block_size
SlabOf(addr) == addr \div heap_block_size

\* ------------------------------------------------------------------- header
max(a, b) == IF a > b THEN a ELSE b

HeapHeader(sig, sz) == [signature |-> sig, size |-> sz]

ScrubHeader == HeapHeader("ScrubBytes", NoHeader)
ZeroHeader == HeapHeader("Zero", 0)

valid_signature(hd) ==
    hd.signature \in {"BigBlock", "Empty", "Used", "EndEdge", "Freed"}

\* A variant of available that leaves out Freed.
availableEmpty(hd) == hd.signature = "Empty"

available(hd) == hd.signature \in {"Empty", "Freed"}

freed(hd) == hd.signature = "Freed"

\* Read of the header stored at data offset o of a constructed block.
ReadHeader(m, o) == IF o \in DOMAIN m THEN m[o] ELSE ScrubHeader

\* HeapHeader::next, as a data offset.
next(m, o) ==
    LET hd == ReadHeader(m, o)
    IN IF hd.size = 0 THEN NoHeader ELSE o + hd.size + HeaderSize

InData(o) == o >= 0 /\ o + HeaderSize <= DataSize

\* A store of a whole header at offset o destroys what overlapped it.
WriteHeader(m, o, hd) ==
    LET keep == {x \in DOMAIN m : x <= o - HeaderSize \/ x >= o + HeaderSize}
    IN [x \in keep \cup {o} |-> IF x = o THEN hd ELSE m[x]]

WriteSignature(m, o, sig) ==
    WriteHeader(m, o, HeapHeader(sig, ReadHeader(m, o).size))

WriteSize(m, o, sz) ==
    WriteHeader(m, o, HeapHeader(ReadHeader(m, o).signature, sz))

\* The region list of a block: the offsets visited by following next()
\* from the start of the data area.
RECURSIVE WalkFrom(_, _)
WalkFrom(m, o) ==
    IF o = NoHeader \/ ~InData(o) \/ o \notin DOMAIN m THEN <<>>
    ELSE <<o>> \o WalkFrom(m, next(m, o))

Regions(m) == WalkFrom(m, 0)

\* ------------------------------------------------------------- construction
\* A variant of place_edge_headers whose first region does not leave room
\* for its own header.
place_edge_headers_long ==
    [o \in {0, DataSize - HeaderSize} |->
        IF o = 0 THEN HeapHeader("Empty", DataSize - HeaderSize)
        ELSE HeapHeader("EndEdge", 0)]

place_edge_headers ==
    [o \in {0, DataSize - HeaderSize} |->
        IF o = 0 THEN HeapHeader("Empty", DataSize - HeaderSize * 2)
        ELSE HeapHeader("EndEdge", 0)]

NoMemory == [o \in {} |-> ZeroHeader]

\* new (addr) HeapBlock{prev}
Construct(h, s, prev) ==
    [h EXCEPT !.mapped = @ \cup {s},
              !.m_prev[s] = prev,
              !.m_next[s] = NULL,
              !.m_data[s] = place_edge_headers]

\* -------------------------------------------------------- merge_and_cleanup
RECURSIVE MergeRun(_, _, _)
\* A variant of the inner loop that counts two headers for each merged
\* region.
MergeRunWide(m, header, size) ==
    LET next_header == next(m, header)
    IN IF next_header # NoHeader /\ available(ReadHeader(m, next_header))
       THEN MergeRun(m, next_header,
                     size + ReadHeader(m, next_header).size + HeaderSize * 2)
       ELSE [size |-> size, header |-> next_header]

MergeRun(m, header, size) ==
    LET next_header == next(m, header)
    IN IF next_header # NoHeader /\ available(ReadHeader(m, next_header))
       THEN MergeRun(m, next_header,
                     size + ReadHeader(m, next_header).size + HeaderSize)
       ELSE [size |-> size, header |-> next_header]

RECURSIVE MergeLoop(_, _)
\* A variant of the outer loop that does not store the merged size.
MergeLoopNoStore(m, header) ==
    IF header = NoHeader THEN [m |-> m, ok |-> TRUE]
    ELSE IF ~InData(header) \/ ReadHeader(m, header) = ScrubHeader
    THEN [m |-> m, ok |-> FALSE]
    ELSE IF available(ReadHeader(m, header))
    THEN LET r == MergeRun(m, header, ReadHeader(m, header).size)
         IN MergeLoop(m, next(m, header))
    ELSE MergeLoop(m, next(m, header))

MergeLoop(m, header) ==
    IF header = NoHeader THEN [m |-> m, ok |-> TRUE]
    ELSE IF ~InData(header) \/ ReadHeader(m, header) = ScrubHeader
    THEN [m |-> m, ok |-> FALSE]
    ELSE IF available(ReadHeader(m, header))
    THEN LET r == MergeRun(m, header, ReadHeader(m, header).size)
         IN MergeLoop(WriteSize(m, header, r.size), r.header)
    ELSE MergeLoop(m, next(m, header))

\* A variant of the unlinking that leaves m_next of the previous block as
\* it is.
UnlinkHalf(h, s) ==
    LET p == h.m_prev[s]
        n == h.m_next[s]
    IN [h EXCEPT !.mapped = @ \ {s},
                 !.m_prev = [x \in Slabs |->
                               IF x = s THEN NULL
                               ELSE IF x = n THEN p ELSE @[x]],
                 !.m_next = [x \in Slabs |->
                               IF x = s THEN NULL ELSE @[x]],
                 !.m_data[s] = NoMemory]

\* A variant of the unlinking that leaves the successor pointing back at
\* the block that goes.
UnlinkForward(h, s) ==
    LET p == h.m_prev[s]
        n == h.m_next[s]
    IN [h EXCEPT !.mapped = @ \ {s},
                 !.m_prev = [x \in Slabs |->
                               IF x = s THEN NULL ELSE @[x]],
                 !.m_next = [x \in Slabs |->
                               IF x = s THEN NULL
                               ELSE IF x = p THEN n ELSE @[x]],
                 !.m_data[s] = NoMemory]

Unlink(h, s) ==
    LET p == h.m_prev[s]
        n == h.m_next[s]
    IN [h EXCEPT !.mapped = @ \ {s},
                 !.m_prev = [x \in Slabs |->
                               IF x = s THEN NULL
                               ELSE IF x = n THEN p ELSE @[x]],
                 !.m_next = [x \in Slabs |->
                               IF x = s THEN NULL
                               ELSE IF x = p THEN n ELSE @[x]],
                 !.m_data[s] = NoMemory]

\* A variant of merge_and_cleanup that keeps an empty block.
merge_and_cleanup_keep(h, s) ==
    LET r == MergeLoop(h.m_data[s], 0)
        h1 == [h EXCEPT !.m_data[s] = r.m]
    IN IF ~r.ok THEN [h |-> h1, status |-> "segv"]
       ELSE [h |-> h1, status |-> "running"]

merge_and_cleanup(h, s) ==
    LET r == MergeLoop(h.m_data[s], 0)
        h1 == [h EXCEPT !.m_data[s] = r.m]
        header == ReadHeader(r.m, 0)
    IN IF ~r.ok THEN [h |-> h1, status |-> "segv"]
       ELSE IF available(header)
               /\ header.size = DataSize - HeaderSize * 2
               /\ h.m_prev[s] # NULL
       THEN [h |-> Unlink(h1, s), status |-> "running"]
       ELSE [h |-> h1, status |-> "running"]

\* ---------------------------------------------------------- HeapBlock::free
RECURSIVE HeapBlock_free(_, _, _)
\* A variant of HeapBlock::free that does not merge.
HeapBlock_free_only(h, s, addr) ==
    IF addr < DataAddr(s) \/ addr >= DataEnd(s)
    THEN IF h.m_next[s] # NULL
         THEN HeapBlock_free(h, h.m_next[s], addr)
         ELSE [h |-> h, status |-> "aborted"]
    ELSE LET o == addr - HeaderSize - DataAddr(s)
             header == ReadHeader(h.m_data[s], o)
         IN IF freed(header) THEN [h |-> h, status |-> "aborted"]
            ELSE IF ~valid_signature(header)
            THEN [h |-> h, status |-> "aborted"]
            ELSE [h |-> [h EXCEPT !.m_data[s] = WriteSignature(@, o, "Freed")],
                  status |-> "running"]

HeapBlock_free(h, s, addr) ==
    IF addr < DataAddr(s) \/ addr >= DataEnd(s)
    THEN IF h.m_next[s] # NULL
         THEN HeapBlock_free(h, h.m_next[s], addr)
         ELSE [h |-> h, status |-> "aborted"]
    ELSE LET o == addr - HeaderSize - DataAddr(s)
             header == ReadHeader(h.m_data[s], o)
         IN IF freed(header) THEN [h |-> h, status |-> "aborted"]
            ELSE IF ~valid_signature(header)
            THEN [h |-> h, status |-> "aborted"]
            ELSE merge_and_cleanup(
                    [h EXCEPT !.m_data[s] = WriteSignature(@, o, "Freed")], s)

\* --------------------------------------------------------- HeapBlock::alloc
\* size & ~mask on size_t
RECURSIVE AndNot(_, _)
AndNot(x, mask) ==
    IF x = 0 THEN 0
    ELSE IF mask = 0 THEN x
    ELSE (IF mask % 2 = 1 THEN 0 ELSE x % 2)
         + 2 * AndNot(x \div 2, mask \div 2)

AlignSize(size, align) ==
    LET a == max(PtrSize, align)
        cut == AndNot(size, a - 1)
    IN IF cut # size THEN cut + a ELSE cut

RECURSIVE HeapBlock_alloc(_, _, _, _, _)
RECURSIVE AllocWalk(_, _, _, _, _, _)

\* A variant of the loop of HeapBlock::alloc that gives the remainder the
\* bytes of its own header as well.
AllocWalkShort(h, s, o, size, align, pool) ==
    LET m == h.m_data[s]
        header == ReadHeader(m, o)
    IN IF ~valid_signature(header)
       THEN [h |-> h, ret |-> NULL, status |-> "aborted"]
       ELSE IF available(header) /\ ~(header.size < size + HeaderSize * 2)
       THEN LET distance_to_next_header == header.size - size
                m1 == WriteHeader(m, o, HeapHeader("Used", size))
                new_header_address == next(m1, o)
            IN IF new_header_address = NoHeader
               THEN [h |-> [h EXCEPT !.m_data[s] = m1],
                     ret |-> NULL, status |-> "segv"]
               ELSE [h |-> [h EXCEPT !.m_data[s] =
                              WriteHeader(m1, new_header_address,
                                 HeapHeader("Empty",
                                            distance_to_next_header))],
                     ret |-> DataAddr(s) + o + HeaderSize,
                     status |-> "running"]
       ELSE IF header.signature = "EndEdge"
       THEN IF h.m_next[s] # NULL
            THEN HeapBlock_alloc(h, h.m_next[s], size, align, pool)
            ELSE IF pool = <<>>
            THEN [h |-> [h EXCEPT !.m_next[s] = MAP_FAILED],
                  ret |-> NULL, status |-> "segv"]
            ELSE LET n == Head(pool)
                     h1 == [Construct(h, n, s) EXCEPT !.m_next[s] = n]
                 IN HeapBlock_alloc(h1, n, size, align, Tail(pool))
       ELSE IF next(m, o) = NoHeader
       THEN [h |-> h, ret |-> NULL, status |-> "running"]
       ELSE AllocWalk(h, s, next(m, o), size, align, pool)

\* A variant of the loop of HeapBlock::alloc that passes over a region
\* with exactly the room asked for.
AllocWalkStrict(h, s, o, size, align, pool) ==
    LET m == h.m_data[s]
        header == ReadHeader(m, o)
    IN IF ~valid_signature(header)
       THEN [h |-> h, ret |-> NULL, status |-> "aborted"]
       ELSE IF available(header) /\ ~(header.size <= size + HeaderSize * 2)
       THEN LET distance_to_next_header == header.size - size - HeaderSize
                m1 == WriteHeader(m, o, HeapHeader("Used", size))
                new_header_address == next(m1, o)
            IN IF new_header_address = NoHeader
               THEN [h |-> [h EXCEPT !.m_data[s] = m1],
                     ret |-> NULL, status |-> "segv"]
               ELSE [h |-> [h EXCEPT !.m_data[s] =
                              WriteHeader(m1, new_header_address,
                                 HeapHeader("Empty",
                                            distance_to_next_header))],
                     ret |-> DataAddr(s) + o + HeaderSize,
                     status |-> "running"]
       ELSE IF header.signature = "EndEdge"
       THEN IF h.m_next[s] # NULL
            THEN HeapBlock_alloc(h, h.m_next[s], size, align, pool)
            ELSE IF pool = <<>>
            THEN [h |-> [h EXCEPT !.m_next[s] = MAP_FAILED],
                  ret |-> NULL, status |-> "segv"]
            ELSE LET n == Head(pool)
                     h1 == [Construct(h, n, s) EXCEPT !.m_next[s] = n]
                 IN HeapBlock_alloc(h1, n, size, align, Tail(pool))
       ELSE IF next(m, o) = NoHeader
       THEN [h |-> h, ret |-> NULL, status |-> "running"]
       ELSE AllocWalk(h, s, next(m, o), size, align, pool)

AllocWalk(h, s, o, size, align, pool) ==
    LET m == h.m_data[s]
        header == ReadHeader(m, o)
    IN IF ~valid_signature(header)
       THEN [h |-> h, ret |-> NULL, status |-> "aborted"]
       ELSE IF available(header) /\ ~(header.size < size + HeaderSize * 2)
       THEN LET distance_to_next_header == header.size - size - HeaderSize
                m1 == WriteHeader(m, o, HeapHeader("Used", size))
                new_header_address == next(m1, o)
            IN IF new_header_address = NoHeader
               THEN [h |-> [h EXCEPT !.m_data[s] = m1],
                     ret |-> NULL, status |-> "segv"]
               ELSE [h |-> [h EXCEPT !.m_data[s] =
                              WriteHeader(m1, new_header_address,
                                 HeapHeader("Empty",
                                            distance_to_next_header))],
                     ret |-> DataAddr(s) + o + HeaderSize,
                     status |-> "running"]
       ELSE IF header.signature = "EndEdge"
       THEN IF h.m_next[s] # NULL
            THEN HeapBlock_alloc(h, h.m_next[s], size, align, pool)
            ELSE IF pool = <<>>
            THEN [h |-> [h EXCEPT !.m_next[s] = MAP_FAILED],
                  ret |-> NULL, status |-> "segv"]
            ELSE LET n == Head(pool)
                     h1 == [Construct(h, n, s) EXCEPT !.m_next[s] = n]
                 IN HeapBlock_alloc(h1, n, size, align, Tail(pool))
       ELSE IF next(m, o) = NoHeader
       THEN [h |-> h, ret |-> NULL, status |-> "running"]
       ELSE AllocWalk(h, s, next(m, o), size, align, pool)

\* A variant of HeapBlock::alloc that aborts when align is 0.
HeapBlock_alloc_fatal(h, s, size, align, pool) ==
    IF align = 0 THEN [h |-> h, ret |-> NULL, status |-> "aborted"]
    ELSE LET sz == AlignSize(size, align)
         IN IF ~(size <= sz)
            THEN [h |-> h, ret |-> NULL, status |-> "aborted"]
            ELSE AllocWalk(h, s, 0, sz, align, pool)

HeapBlock_alloc(h, s, size, align, pool) ==
    IF align = 0 THEN [h |-> h, ret |-> NULL, status |-> "running"]
    ELSE LET sz == AlignSize(size, align)
         IN IF ~(size <= sz)
            THEN [h |-> h, ret |-> NULL, status |-> "aborted"]
            ELSE AllocWalk(h, s, 0, sz, align, pool)

\* ---------------------------------------------------------------- my_malloc
BigHeader(size) == HeapHeader("BigBlock", size + HeaderSize)
Unmapped == HeapHeader("Unmapped", 0)

my_malloc(h, initialized, size, align, pool, bk) ==
    LET h0 == IF initialized THEN h ELSE Construct(h, Root, NULL)
    IN IF size > heap_block_size - HeaderSize
       THEN IF bk = NULL
            THEN [h |-> h0, ret |-> NULL, status |-> "segv"]
            ELSE [h |-> [h0 EXCEPT !.big[bk] = BigHeader(size)],
                  ret |-> BigAddr(bk) + HeaderSize,
                  status |-> "running"]
       ELSE HeapBlock_alloc(h0, Root, size, align, pool)

\* ------------------------------------------------------------------ my_free
IsBigAddr(addr) == addr >= BigAddr(1)
BigOf(addr) == (addr \div heap_block_size - MaxSlabs) \div 2

my_free(h, initialized, addr) ==
    IF IsBigAddr(addr)
    THEN LET k == BigOf(addr)
         IN IF h.big[k] = Unmapped THEN [h |-> h, status |-> "segv"]
            ELSE [h |-> [h EXCEPT !.big[k] = Unmapped], status |-> "running"]
    ELSE IF SlabOf(addr) \notin h.mapped THEN [h |-> h, status |-> "segv"]
    ELSE IF ~initialized THEN [h |-> h, status |-> "aborted"]
    ELSE HeapBlock_free(h, Root, addr)

\* ----------------------------------------------------- HeapBlock::leak_check
Line(kind, addr, size) == [kind |-> kind, addr |-> addr, size |-> size]

RECURSIVE LeakWalk(_, _, _, _)
LeakWalk(m, fill, s, o) ==
    IF o = NoHeader THEN [out |-> <<>>, leak_found |-> FALSE]
    ELSE LET header == IF o \in DOMAIN m THEN m[o] ELSE fill
         IN IF header.signature = "Used"
            THEN LET rest == LeakWalk(m, fill, s, next(m, o))
                 IN IF header.size > 0
                    THEN [out |-> <<Line("leak", DataAddr(s) + o + HeaderSize,
                                         header.size)>> \o rest.out,
                          leak_found |-> TRUE]
                    ELSE rest
            ELSE IF ~valid_signature(header)
            THEN [out |-> <<Line("corrupted", DataAddr(s) + o, 0)>>,
                  leak_found |-> TRUE]
            ELSE LeakWalk(m, fill, s, next(m, o))

RECURSIVE leak_check(_, _, _)
\* A variant of leak_check that does not go on to m_next.
leak_check_here(h, initialized, s) ==
    LET w == LeakWalk(h.m_data[s],
                      IF initialized THEN ScrubHeader ELSE ZeroHeader, s, 0)
    IN <<Line("start", BlockAddr(s), 0)>> \o w.out
       \o (IF ~w.leak_found
           THEN <<Line("clean", BlockAddr(s), 0)>> ELSE <<>>)

leak_check(h, initialized, s) ==
    LET w == LeakWalk(h.m_data[s],
                      IF initialized THEN ScrubHeader ELSE ZeroHeader, s, 0)
    IN <<Line("start", BlockAddr(s), 0)>> \o w.out
       \o (IF h.m_next[s] # NULL
           THEN leak_check(h, initialized, h.m_next[s]) ELSE <<>>)
       \o (IF ~w.leak_found
           THEN <<Line("clean", BlockAddr(s), 0)>> ELSE <<>>)

my_leak_check(h, initialized) == leak_check(h, initialized, Root)

\* ---------------------------------------------------------- HeapBlock::dump
RECURSIVE DumpWalk(_, _, _)
DumpWalk(m, s, o) ==
    IF o = NoHeader THEN [out |-> <<>>, status |-> "running"]
    ELSE LET header == ReadHeader(m, o)
         IN IF ~valid_signature(header)
            THEN [out |-> <<Line("corrupted", DataAddr(s) + o, 0)>>,
                  status |-> "aborted"]
            ELSE LET rest == DumpWalk(m, s, next(m, o))
                 IN [out |-> <<Line(header.signature, o, header.size)>>
                             \o rest.out,
                     status |-> rest.status]

RECURSIVE dump(_, _)
dump(h, s) ==
    LET w == DumpWalk(h.m_data[s], s, 0)
    IN IF w.status # "running" \/ h.m_next[s] = NULL
       THEN [out |-> <<Line("heap", BlockAddr(s), 0)>> \o w.out,
             status |-> w.status]
       ELSE LET rest == dump(h, h.m_next[s])
            IN [out |-> <<Line("heap", BlockAddr(s), 0)>> \o w.out
                        \o rest.out,
                status |-> rest.status]

my_heap_dump(h, initialized) ==
    IF ~initialized
    THEN [out |-> <<Line("uninitialized", NULL, 0)>>, status |-> "running"]
    ELSE dump(h, Root)

\* -------------------------------------------------------------------- state
VARIABLES
    g_heap_initialized, \* the flag of the lazy construction of the root
    mapped,             \* the blocks that exist: the root and the mmap'ed ones
    m_prev, m_next,     \* HeapBlock::m_prev, HeapBlock::m_next
    m_data,             \* the headers stored in HeapBlock::m_data
    big,                \* the headers of the big-block mappings
    status,             \* "running", "aborted" (abort()) or "segv"
    live,               \* addresses returned by my_malloc and not yet freed
    stale,              \* the address freed last, if still free, or NULL
    misused,            \* my_free was handed the stale address and returned
    last,               \* the last call, its result and its output
    calls               \* the number of addresses my_malloc has handed out

vars == <<g_heap_initialized, mapped, m_prev, m_next, m_data, big, status,
          live, stale, misused, last, calls>>

Heap == [mapped |-> mapped, m_prev |-> m_prev, m_next |-> m_next,
         m_data |-> m_data, big |-> big]

\* A call: its arguments, the address it returned (my_malloc) or was given
\* (my_free), the number of blocks it added to the chain and what it
\* printed.  A my_free that directly follows the my_malloc that returned its
\* address remembers that request in first, fsize and align, and so does a
\* my_malloc with this align that directly follows such a my_free; gone
\* says that this my_free returned the block of the address to the OS, and
\* failed that an mmap of this my_malloc failed.
Call(op, size, align, addr, grew, out, first, fsize) ==
    [op |-> op, size |-> size, align |-> align, addr |-> addr,
     grew |-> grew, out |-> out, first |-> first, fsize |-> fsize,
     gone |-> FALSE, failed |-> FALSE]

NoCall == Call("none", 0, 0, NULL, 0, <<>>, NULL, 0)

\* The blocks that the next calls of mmap return, lowest address first;
\* when the sequence is used up, mmap fails.
RECURSIVE Ascending(_)
Ascending(S) ==
    IF S = {} THEN <<>>
    ELSE LET lo == CHOOSE x \in S : \A y \in S : x <= y
         IN <<lo>> \o Ascending(S \ {lo})

Pools(free) ==
    {SubSeq(Ascending(free), 1, n) : n \in 0..Cardinality(free)}

\* Of the headers a block holds, a later call can read only those of the
\* region list and the ones in front of an address the caller still holds;
\* the map forgets the others.
Readable(h, addrs) ==
    [h EXCEPT !.m_data = [s \in Slabs |->
        LET m == h.m_data[s]
            list == Regions(m)
            keep == {list[i] : i \in DOMAIN list}
                    \cup {o \in DOMAIN m :
                            DataAddr(s) + o + HeaderSize \in addrs}
        IN [o \in keep |-> m[o]]]]

NoHeap == [mapped |-> {Root},
           m_prev |-> [s \in Slabs |-> NULL],
           m_next |-> [s \in Slabs |-> NULL],
           m_data |-> [s \in Slabs |-> NoMemory],
           big |-> [k \in Bigs |-> Unmapped]]

Init ==
    /\ g_heap_initialized = FALSE
    /\ mapped = NoHeap.mapped
    /\ m_prev = NoHeap.m_prev
    /\ m_next = NoHeap.m_next
    /\ m_data = NoHeap.m_data
    /\ big = NoHeap.big
    /\ status = "running"
    /\ live = {}
    /\ stale = NULL
    /\ misused = FALSE
    /\ last = NoCall
    /\ calls = 0

SetHeap(h) ==
    /\ mapped' = h.mapped
    /\ m_prev' = h.m_prev
    /\ m_next' = h.m_next
    /\ m_data' = h.m_data
    /\ big' = h.big

\* The end of the process.
Dies(st, call) ==
    /\ SetHeap(NoHeap)
    /\ status' = st
    /\ g_heap_initialized' = FALSE
    /\ live' = {}
    /\ stale' = NULL
    /\ misused' = FALSE
    /\ last' = call
    /\ calls' = 0

Malloc(size, align, pool, bk) ==
    /\ status = "running"
    /\ ~misused
    /\ calls < MaxCalls
    /\ LET r == my_malloc(Heap, g_heap_initialized, size, align, pool, bk)
           grew == Cardinality(r.h.mapped) - Cardinality(mapped)
           nlive == IF r.ret # NULL THEN live \cup {r.ret} ELSE live
           nstale == IF r.ret = stale THEN NULL ELSE stale
           h == Readable(r.h, nlive \cup {nstale})
           failed == \/ size > heap_block_size - HeaderSize /\ bk = NULL
                     \/ \E s \in Slabs : r.h.m_next[s] = MAP_FAILED
       IN IF r.status # "running"
          THEN Dies(r.status,
                    [Call("malloc", size, align, NULL, grew, <<>>, NULL, 0)
                       EXCEPT !.failed = failed])
          ELSE /\ SetHeap(h)
               /\ status' = "running"
               /\ g_heap_initialized' = TRUE
               /\ live' = nlive
               /\ stale' = nstale
               /\ last' =
                    IF last.op = "free" /\ last.first # NULL
                       /\ last.align = align
                    THEN [Call("malloc", size, align, r.ret, grew, <<>>,
                               last.first, last.fsize)
                            EXCEPT !.gone = last.gone, !.failed = failed]
                    ELSE [Call("malloc", size, align, r.ret, grew, <<>>,
                               NULL, 0)
                            EXCEPT !.failed = failed]
               /\ calls' = IF r.ret # NULL THEN calls + 1 ELSE calls
               /\ UNCHANGED misused

\* my_free(addr); the caller goes on holding addr.
Free(addr) ==
    /\ status = "running"
    /\ ~misused
    /\ LET r == my_free(Heap, g_heap_initialized, addr)
           grew == Cardinality(r.h.mapped) - Cardinality(mapped)
           nlive == live \ {addr}
           nstale == addr
           h == Readable(r.h, nlive \cup {nstale})
       IN IF r.status # "running"
          THEN Dies(r.status, Call("free", 0, 0, addr, grew, <<>>, NULL, 0))
          ELSE /\ SetHeap(h)
               /\ status' = "running"
               /\ live' = nlive
               /\ stale' = nstale
               /\ misused' = (addr \notin live)
               /\ last' =
                    IF last.op = "malloc" /\ last.addr = addr
                    THEN [Call("free", 0, last.align, addr, grew, <<>>,
                               addr, last.size)
                            EXCEPT !.gone = (grew < 0)]
                    ELSE Call("free", 0, 0, addr, grew, <<>>, NULL, 0)
               /\ UNCHANGED <<g_heap_initialized, calls>>

LeakCheck ==
    /\ status = "running"
    /\ ~misused
    /\ last' = Call("leak_check", 0, 0, NULL, 0,
                    my_leak_check(Heap, g_heap_initialized), NULL, 0)
    /\ UNCHANGED <<g_heap_initialized, mapped, m_prev, m_next, m_data, big,
                   status, live, stale, misused, calls>>

HeapDump ==
    /\ status = "running"
    /\ ~misused
    /\ LET r == my_heap_dump(Heap, g_heap_initialized)
       IN IF r.status # "running"
          THEN Dies(r.status,
                    Call("heap_dump", 0, 0, NULL, 0, r.out, NULL, 0))
          ELSE /\ last' = Call("heap_dump", 0, 0, NULL, 0, r.out, NULL, 0)
               /\ UNCHANGED <<g_heap_initialized, mapped, m_prev, m_next,
                              m_data, big, status, live, stale, misused,
                              calls>>

\* mmap is reached only by a request that finds no room in the chain, or
\* by one above the big-block threshold.
NeedsBlock(size, align) ==
    /\ status = "running"
    /\ my_malloc(Heap, g_heap_initialized, size, align, <<>>, NULL).status
          = "segv"

PoolChoices(size, align) ==
    IF calls < MaxCalls /\ NeedsBlock(size, align)
    THEN Pools(Slabs \ mapped) ELSE {<<>>}

BigChoices(size) ==
    IF size > heap_block_size - HeaderSize
    THEN {k \in Bigs : /\ big[k] = Unmapped
                        /\ \A j \in Bigs : j < k => big[j] # Unmapped}
         \cup {NULL}
    ELSE {NULL}

Next ==
    \/ \E rq \in Requests :
          \E pool \in PoolChoices(rq[1], rq[2]), bk \in BigChoices(rq[1]) :
             Malloc(rq[1], rq[2], pool, bk)
    \/ \E addr \in live \cup ({stale} \ {NULL}) :
          Free(addr)
    \/ LeakCheck
    \/ HeapDump

Spec == Init /\ [][Next]_vars

\* ------------------------------------------------------------ observations
Alive == status = "running" /\ ~misused

Returned(call) == call.op = "malloc" /\ call.addr # NULL

SlabLive == {p \in live : ~IsBigAddr(p)}

OffsetOf(p) == p - HeaderSize - DataAddr(SlabOf(p))

\* The region list of a block with its headers.
Layout(m) ==
    LET list == Regions(m)
    IN [i \in DOMAIN list |-> <<list[i], m[list[i]]>>]

\* The offsets of the headers of the region list.
Heads(m) ==
    LET list == Regions(m)
    IN {list[i] : i \in DOMAIN list}

InList(m, o) == o \in Heads(m)

\* The chain of blocks, from the root.
RECURSIVE ChainFrom(_, _, _)
ChainFrom(nxt, s, fuel) ==
    IF s \notin Slabs \/ fuel = 0 THEN <<>>
    ELSE <<s>> \o ChainFrom(nxt, nxt[s], fuel - 1)

Chain == ChainFrom(m_next, Root, MaxSlabs + 1)

\* The largest size that HeapBlock::alloc places in a fresh block.
MaxSlabPayload == DataSize - HeaderSize * 2 - HeaderSize * 2

Overlap(a1, n1, a2, n2) == a1 < a2 + n2 /\ a2 < a1 + n1

\* ----------------------------------------------------------------------- C1
PayloadSize(md, p) == md[SlabOf(p)][OffsetOf(p)].size

Separate(mp, md, lv) ==
    LET heads == [s \in mp |-> Heads(md[s])]
    IN \A p \in lv :
          /\ SlabOf(p) \in mp
          /\ OffsetOf(p) \in heads[SlabOf(p)]
          /\ md[SlabOf(p)][OffsetOf(p)].signature = "Used"
          /\ \A q \in lv \ {p} :
                SlabOf(q) \in mp /\ OffsetOf(q) \in DOMAIN md[SlabOf(q)]
                => ~Overlap(p, PayloadSize(md, p), q, PayloadSize(md, q))
          /\ \A s \in mp : \A o \in heads[s] :
                ~Overlap(p, PayloadSize(md, p), DataAddr(s) + o, HeaderSize)

\* The headers that a step stores or changes lie outside the payload of
\* every allocation that is live before and after it, and its header
\* stays as it is.
Untouched ==
    \A p \in SlabLive \cap SlabLive' :
        /\ m_data'[SlabOf(p)][OffsetOf(p)] = m_data[SlabOf(p)][OffsetOf(p)]
        /\ \A s \in mapped' : \A o \in DOMAIN m_data'[s] :
              (o \notin DOMAIN m_data[s] \/ m_data'[s][o] # m_data[s][o])
              => ~Overlap(p, PayloadSize(m_data, p),
                          DataAddr(s) + o, HeaderSize)

\* C1: while my_free is only given live addresses, the payloads of the live
\* slab allocations are pairwise disjoint and disjoint from every header of
\* the region lists, and no call stores into the header or the payload of
\* an allocation that stays live.
LiveNeighboursIntact ==
    /\ [](Alive => Separate(mapped, m_data, SlabLive))
    /\ [][(status' = "running" /\ ~misused') => Untouched]_vars

\* A my_free has merged regions and returned a block to the OS while other
\* slab allocations are live.
LiveNeighboursWitness ==
    /\ Alive
    /\ last.op = "free"
    /\ last.grew < 0
    /\ SlabLive # {}

\* ----------------------------------------------------------------------- C2
\* C2: a my_free of an address that was freed and not handed out again
\* since never returns.
DoubleFreeIsFatal == ~(status = "running" /\ misused)

\* ----------------------------------------------------------------------- C3
\* C3: a request one byte above the largest size that the slab path can
\* place is served by a big block.
OversizedBoundary ==
    (last.op = "malloc" /\ last.size = MaxSlabPayload + 1 /\ last.align # 0)
    => (status = "running" /\ IsBigAddr(last.addr))

\* ----------------------------------------------------------------------- C4
\* C4: a my_malloc call adds at most one block to the chain.
AtMostOneNewSlab == last.op = "malloc" => last.grew <= 1

\* ----------------------------------------------------------------------- C5
Reused(call) == Returned(call) /\ call.first # NULL /\ ~IsBigAddr(call.first)

\* C5 as stated: after p = my_malloc(S, a); my_free(p), a my_malloc(S', a)
\* with S' <= S returns p.
ReuseAnySmaller ==
    (Returned(last) /\ last.first # NULL /\ last.size <= last.fsize)
    => last.addr = last.first

\* C5: after p = my_malloc(S, a); my_free(p) with p in a block that this
\* my_free does not return to the OS, a my_malloc(S', a) whose size rounds
\* up to the size that S rounds up to returns p.
ReuseSameRounded ==
    (Reused(last) /\ ~last.gone
     /\ AlignSize(last.size, last.align) = AlignSize(last.fsize, last.align))
    => last.addr = last.first

\* The region freed a call ago has been handed out again, next to a live
\* allocation that was there all the time.
ReuseWitness ==
    /\ Alive
    /\ Reused(last) /\ ~last.gone
    /\ AlignSize(last.size, last.align) = AlignSize(last.fsize, last.align)
    /\ last.addr = last.first
    /\ Cardinality(SlabLive) >= 2

\* ----------------------------------------------------------------------- C6
\* The indices i of the region list of m at which two Used regions lie
\* between two Used regions.
InnerPairs(m) ==
    LET list == Regions(m)
    IN {i \in DOMAIN list :
           /\ i > 1 /\ i + 2 <= Len(list)
           /\ \A j \in (i - 1)..(i + 2) : m[list[j]].signature = "Used"}

FreeBoth(x, y) ==
    LET r == my_free(Heap, g_heap_initialized, x)
    IN IF r.status # "running" THEN r
       ELSE my_free(r.h, g_heap_initialized, y)

\* What two frees of the regions i and i + 1 of block s leave, in both
\* orders: the same region lists, with one region of signature sig and size
\* a + b + HeaderSize in the place of the two.
MergedPair(s, i, sig) ==
    LET m == m_data[s]
        before == Layout(m)
        oa == before[i][1]
        ob == before[i + 1][1]
        a == DataAddr(s) + oa + HeaderSize
        b == DataAddr(s) + ob + HeaderSize
        ab == FreeBoth(a, b)
        ba == FreeBoth(b, a)
        after == Layout(ab.h.m_data[s])
    IN /\ ab.status = "running" /\ ba.status = "running"
       /\ \A t \in Slabs : Layout(ab.h.m_data[t]) = Layout(ba.h.m_data[t])
       /\ ab.h.mapped = ba.h.mapped
       /\ Len(after) = Len(before) - 1
       /\ after[i] = <<oa, HeapHeader(sig, m[oa].size + m[ob].size
                                           + HeaderSize)>>
       /\ \A j \in DOMAIN after :
             j # i => after[j] = before[IF j < i THEN j ELSE j + 1]

\* C6 as stated: the region left by the two frees is tagged Empty.
AdjacentFreesLeaveEmpty ==
    Alive => \A s \in mapped : \A i \in InnerPairs(m_data[s]) :
                MergedPair(s, i, "Empty")

\* C6: two adjacent allocations between Used regions, freed in either
\* order, leave the same region lists, and in their place one region tagged
\* Freed whose size is the sum of their sizes plus HeaderSize.
AdjacentFreesLeaveFreed ==
    Alive => \A s \in mapped : \A i \in InnerPairs(m_data[s]) :
                MergedPair(s, i, "Freed")

\* The second of two adjacent allocations between Used regions has just
\* been freed into the region of the first.
AdjacentFreesWitness ==
    /\ Alive
    /\ last.op = "free" /\ ~IsBigAddr(last.addr)
    /\ LET m == m_data[SlabOf(last.addr)]
           list == Regions(m)
       IN \E i \in DOMAIN list :
             /\ i > 1 /\ i < Len(list)
             /\ m[list[i]].signature = "Freed"
             /\ m[list[i - 1]].signature = "Used"
             /\ m[list[i + 1]].signature = "Used"
             /\ list[i] < OffsetOf(last.addr)
             /\ OffsetOf(last.addr) < list[i + 1]

\* ----------------------------------------------------------------------- C7
Without(seq, s) == SelectSeq(seq, LAMBDA x : x # s)

OnlyUsed(m, o) ==
    \A x \in Heads(m) : x # o => m[x].signature # "Used"

\* C7: a my_free that leaves a block other than the root without a Used
\* region takes exactly this block out of the chain and unmaps it, and
\* leaves the region lists of the other blocks as they are; any other
\* my_free leaves the chain as it is; the root is always in the chain.
EmptySlabReleased ==
    /\ [](Alive => (Root \in mapped /\ Chain[1] = Root
                    /\ m_prev[Root] = NULL))
    /\ [][(status' = "running" /\ ~misused')
        => \A a \in live \ live' :
              IF ~IsBigAddr(a) /\ SlabOf(a) # Root
                 /\ OnlyUsed(m_data[SlabOf(a)], OffsetOf(a))
              THEN /\ mapped' = mapped \ {SlabOf(a)}
                   /\ Chain' = Without(Chain, SlabOf(a))
                   /\ Len(Chain') = Len(Chain) - 1
                   /\ \A t \in mapped' :
                      Layout(m_data'[t]) = Layout(m_data[t])
              ELSE mapped' = mapped /\ Chain' = Chain]_vars

\* A my_free has returned a block to the OS and another block is still
\* chained behind the root.
EmptySlabWitness ==
    /\ Alive
    /\ last.op = "free" /\ last.grew < 0
    /\ Len(Chain) >= 2

\* ----------------------------------------------------------------------- C8
\* C8: when no slab allocation is live, the chain is the root alone and its
\* data area is one available region of DataSize - 2 * HeaderSize bytes
\* followed by the end edge.
AllFreedLeavesRoot ==
    (Alive /\ g_heap_initialized /\ SlabLive = {})
    => /\ mapped = {Root} /\ Chain = <<Root>>
       /\ Len(Layout(m_data[Root])) = 2
       /\ Layout(m_data[Root])[1][1] = 0
       /\ available(Layout(m_data[Root])[1][2])
       /\ Layout(m_data[Root])[1][2].size = DataSize - HeaderSize * 2
       /\ Layout(m_data[Root])[2] =
             <<DataSize - HeaderSize, HeapHeader("EndEdge", 0)>>

\* The last live allocation has been freed and its block, not the root, has
\* gone back to the OS.
AllFreedWitness ==
    /\ Alive
    /\ live = {}
    /\ last.op = "free" /\ last.grew < 0

\* ----------------------------------------------------------------------- C9
Leaks(out) == SelectSeq(out, LAMBDA l : l.kind = "leak")

ReportsExactly(out, addrs) ==
    /\ {Leaks(out)[i].addr : i \in DOMAIN Leaks(out)} = addrs
    /\ Len(Leaks(out)) = Cardinality(addrs)
    /\ \A i \in DOMAIN out : out[i].kind # "corrupted"

\* C9 as stated: my_leak_check reports exactly the live allocations, of the
\* slab path and of the big-block path.
LeakCheckReportsAllLive ==
    (Alive /\ last.op = "leak_check" /\ live # {})
    => ReportsExactly(last.out, live)

\* C9: my_leak_check reports exactly the live allocations of the slab path,
\* each once; a live big block is not reported.
LeakCheckReportsSlabLive ==
    (Alive /\ last.op = "leak_check" /\ g_heap_initialized)
    => ReportsExactly(last.out, SlabLive)

\* my_leak_check has run with live allocations in two blocks and a live big
\* block.
LeakCheckWitness ==
    /\ Alive
    /\ last.op = "leak_check"
    /\ \E p, q \in SlabLive : SlabOf(p) # SlabOf(q)
    /\ live # SlabLive

\* ---------------------------------------------------------------------- C10
RECURSIVE IsPowerOfTwo(_)
IsPowerOfTwo(n) ==
    IF n <= 1 THEN n = 1 ELSE n % 2 = 0 /\ IsPowerOfTwo(n \div 2)

\* C10: an address returned for a power-of-two align is a multiple of
\* align and of the pointer width.
ResultIsAligned ==
    (Returned(last) /\ IsPowerOfTwo(last.align))
    => (last.addr % last.align = 0 /\ last.addr % PtrSize = 0)

\* ---------------------------------------------------------------------- C11
\* C11 as stated: my_malloc(size, 0) aborts the process.
ZeroAlignIsFatal ==
    (last.op = "malloc" /\ last.align = 0) => status = "aborted"

\* C11: my_malloc(size, 0) does not end the process.  On the block path it
\* returns null and leaves the chain and every region as they were (after
\* the construction of the root, if this is the first call); above the
\* big-block threshold align is not looked at and the request is served.
ZeroAlignReturnsNull ==
    /\ (last.op = "malloc" /\ last.align = 0)
       => (status = "running" /\ last.addr = NULL /\ last.grew = 0)
    /\ Alive =>
         LET h0 == IF g_heap_initialized THEN Heap
                   ELSE Construct(Heap, Root, NULL)
             r == my_malloc(Heap, g_heap_initialized, 8, 0, <<>>, NULL)
         IN /\ r = [h |-> h0, ret |-> NULL, status |-> "running"]
            /\ \A k \in Bigs :
                  big[k] = Unmapped =>
                     LET b == my_malloc(Heap, g_heap_initialized,
                                        heap_block_size, 0, <<>>, k)
                     IN /\ b.status = "running"
                        /\ b.ret = BigAddr(k) + HeaderSize
                        /\ b.h.big[k] = BigHeader(heap_block_size)

\* my_malloc(8, 0) has returned null on a heap with live allocations.
ZeroAlignWitness ==
    /\ Alive
    /\ last.op = "malloc" /\ last.align = 0 /\ last.addr = NULL
    /\ SlabLive # {}

\* ---------------------------------------------------------------------- C12
\* C12: a my_malloc whose mmap, for a new block or for a big block, fails
\* returns null to its caller.
MapFailureReturnsNull ==
    (last.op = "malloc" /\ last.failed)
    => (status = "running" /\ last.addr = NULL)

\* ---------------------------------------------------------------------- C13
\* C13: the first call of my_malloc, my_heap_dump or my_leak_check
\* constructs the root, so that every call after which the process runs
\* leaves a constructed root behind, and my_leak_check never walks a root
\* that has not been constructed.
RootConstructedByFirstCall ==
    (status = "running" /\ last.op \in {"malloc", "leak_check", "heap_dump"})
    => /\ g_heap_initialized
       /\ Regions(m_data[Root]) # <<>>
       /\ \A i \in DOMAIN last.out : last.out[i].kind # "corrupted"

\* ---------------------------------------------------------------------- C14
RECURSIVE SpanFrom(_, _, _)
\* The bytes that the regions list[i], list[i + 1], ... take with their
\* headers.
SpanFrom(m, list, i) ==
    IF i > Len(list) THEN 0
    ELSE HeaderSize + m[list[i]].size + SpanFrom(m, list, i + 1)

Tiles(m) ==
    LET list == Regions(m)
        n == Len(list)
    IN /\ n >= 2
       /\ list[1] = 0
       /\ \A i \in 1..(n - 1) :
             /\ m[list[i]].signature \in {"Empty", "Used", "Freed"}
             /\ list[i + 1] = list[i] + HeaderSize + m[list[i]].size
       /\ list[n] = DataSize - HeaderSize
       /\ m[list[n]] = HeapHeader("EndEdge", 0)
       /\ SpanFrom(m, list, 1) = DataSize

\* C14: between calls, the regions of every block of the chain tile its
\* data area: the list starts at offset 0, each header starts where the
\* region before it ends, the list ends with the EndEdge header in the last
\* HeaderSize bytes, and regions and headers add up to the data area.
RegionsTileDataArea ==
    (Alive /\ g_heap_initialized) => \A s \in mapped : Tiles(m_data[s])

\* A my_free has merged two regions in front of a Used region, in a heap of
\* more than one block.
RegionsTileWitness ==
    /\ Alive
    /\ last.op = "free"
    /\ Cardinality(mapped) >= 2
    /\ \E s \in mapped :
          LET m == m_data[s]
              list == Regions(m)
          IN \E i \in 1..(Len(list) - 1) :
                /\ m[list[i]].signature = "Freed"
                /\ m[list[i]].size > 16
                /\ m[list[i + 1]].signature = "Used"

\* ---------------------------------------------------------------------- C15
OnlyEndEdgeIsEmpty(m) ==
    \A o \in Heads(m) : m[o].size = 0 => m[o].signature = "EndEdge"

\* C15: after any calls of my_malloc (of any size >= 0) and my_free, the
\* only region of size 0 of a block is its EndEdge; this is so in the heap
\* between calls and in the heap that a further my_malloc leaves behind.
OnlyEndEdgeHasNoBytes ==
    Alive =>
       /\ \A s \in mapped : OnlyEndEdgeIsEmpty(m_data[s])
       /\ \A rq \in Requests :
             LET r == my_malloc(Heap, g_heap_initialized, rq[1], rq[2],
                                <<>>, NULL)
             IN \A s \in r.h.mapped : OnlyEndEdgeIsEmpty(r.h.m_data[s])

\* ---------------------------------------------------------------------- C16
Coalesced(m) ==
    LET list == Regions(m)
    IN \A i \in 1..(Len(list) - 1) :
          ~(available(m[list[i]]) /\ available(m[list[i + 1]]))

\* C16: between calls, no block of the chain has two adjacent regions that
\* are both available.
NoAdjacentAvailable ==
    (Alive /\ g_heap_initialized) => \A s \in mapped : Coalesced(m_data[s])

\* A my_free has merged its region into the available region in front of
\* it, in a block that still holds a Used region.
NoAdjacentAvailableWitness ==
    /\ Alive
    /\ last.op = "free" /\ ~IsBigAddr(last.addr)
    /\ SlabOf(last.addr) \in mapped
    /\ LET m == m_data[SlabOf(last.addr)]
       IN /\ OffsetOf(last.addr) \notin Heads(m)
          /\ \E o \in Heads(m) : m[o].signature = "Used"

\* ---------------------------------------------------------------------- C17
\* The regions of m, in list order, that pass the fit test for size sz.
FitsIn(m, sz) ==
    SelectSeq(Regions(m),
              LAMBDA o : available(m[o]) /\ m[o].size >= sz + HeaderSize * 2)

\* The requests that my_malloc hands to HeapBlock::alloc with a valid align
\* and a size that a region of a block can hold.
BlockRequests ==
    {rq \in Requests : rq[1] > 0 /\ rq[1] <= MaxSlabPayload /\ rq[2] # 0}

\* What first fit asks of my_malloc(size, align) in the current heap with
\* an OS that maps every block asked for: if it returns an address, this is
\* the payload of the first region that fits, in the order of the chain and
\* of the region lists; what lies in front of it stays as it is; a block is
\* added only when no region fits, and then exactly one.
FirstFit(size, align) ==
    LET h0 == IF g_heap_initialized THEN Heap
              ELSE Construct(Heap, Root, NULL)
        sz == AlignSize(size, align)
        r == my_malloc(Heap, g_heap_initialized, size, align,
                       Ascending(Slabs \ h0.mapped), NULL)
        chain == ChainFrom(h0.m_next, Root, MaxSlabs + 1)
        fits == [i \in DOMAIN chain |-> FitsIn(h0.m_data[chain[i]], sz)]
        hit == {i \in DOMAIN chain : fits[i] # <<>>}
    IN (r.status = "running" /\ r.ret # NULL) =>
         IF hit # {}
         THEN LET i == CHOOSE x \in hit : \A y \in hit : x <= y
                  s == chain[i]
                  o == Head(fits[i])
              IN /\ r.ret = DataAddr(s) + o + HeaderSize
                 /\ r.h.mapped = h0.mapped
                 /\ \A j \in 1..(i - 1) :
                       r.h.m_data[chain[j]] = h0.m_data[chain[j]]
                 /\ \A x \in Heads(h0.m_data[s]) :
                       x < o => r.h.m_data[s][x] = h0.m_data[s][x]
         ELSE LET n == Head(Ascending(Slabs \ h0.mapped))
              IN /\ r.ret = DataAddr(n) + HeaderSize
                 /\ r.h.mapped = h0.mapped \cup {n}
                 /\ r.h.m_next[chain[Len(chain)]] = n
                 /\ \A t \in h0.mapped : r.h.m_data[t] = h0.m_data[t]

\* C17: a my_malloc served by the blocks returns the payload address of the
\* first region, in chain order and in list order, that is available and
\* has size >= rounded size + 2 * HeaderSize; the available regions in
\* front of it are left as they are, and a block is added only if no region
\* of the chain fits.
FirstFitPlacement ==
    Alive => \A rq \in BlockRequests : FirstFit(rq[1], rq[2])

\* The last my_malloc has passed over an available region that was too
\* small and is still there, in front of the region it returned.
FirstFitWitness ==
    /\ Alive
    /\ Returned(last) /\ ~IsBigAddr(last.addr)
    /\ LET m == m_data[SlabOf(last.addr)]
       IN \E o \in Heads(m) : o < OffsetOf(last.addr) /\ available(m[o])

\* ---------------------------------------------------------------------- C18
\* What a split asks of my_malloc(size, align) in the current heap with an
\* OS that maps every block asked for: if it returns p, the region of p,
\* available before with size L, is Used with the rounded size sz and is
\* followed at once by an Empty region of size L - sz - HeaderSize; the
\* regions behind and in front of the two, and those of all other blocks,
\* are the ones from before the call (a block added by the call starting
\* as place_edge_headers leaves it).
SplitFrame(size, align) ==
    LET h0 == IF g_heap_initialized THEN Heap
              ELSE Construct(Heap, Root, NULL)
        sz == AlignSize(size, align)
        r == my_malloc(Heap, g_heap_initialized, size, align,
                       Ascending(Slabs \ h0.mapped), NULL)
        s == SlabOf(r.ret)
        o == OffsetOf(r.ret)
        before == [t \in r.h.mapped |->
                     IF t \in h0.mapped THEN h0.m_data[t]
                     ELSE place_edge_headers]
        b == Layout(before[s])
        L == before[s][o].size
    IN (r.status = "running" /\ r.ret # NULL) =>
         /\ s \in r.h.mapped
         /\ o \in Heads(before[s])
         /\ available(before[s][o])
         /\ \E i \in DOMAIN b :
               /\ b[i][1] = o
               /\ Layout(r.h.m_data[s]) =
                     SubSeq(b, 1, i - 1)
                     \o << <<o, HeapHeader("Used", sz)>>,
                           <<o + HeaderSize + sz,
                             HeapHeader("Empty", L - sz - HeaderSize)>> >>
                     \o SubSeq(b, i + 1, Len(b))
         /\ \A t \in r.h.mapped \ {s} :
               Layout(r.h.m_data[t]) = Layout(before[t])

\* C18: a my_malloc that places a request of rounded size s in an
\* available region of size L leaves that region Used with size s,
\* followed at once by a new Empty region of size L - s - HeaderSize; the
\* header that followed the region is where it was, unchanged, and so is
\* every other region of every block.
SplitLeavesRest ==
    Alive => \A rq \in BlockRequests : SplitFrame(rq[1], rq[2])

\* The last my_malloc has split a region that lay between other regions:
\* a Used region lies in front of it and its Empty remainder is followed
\* by the header that followed the region before.
SplitWitness ==
    /\ Alive
    /\ Returned(last) /\ ~IsBigAddr(last.addr)
    /\ LET m == m_data[SlabOf(last.addr)]
           list == Regions(m)
       IN \E i \in DOMAIN list :
             /\ i > 1 /\ i + 2 <= Len(list)
             /\ list[i] = OffsetOf(last.addr)
             /\ m[list[i - 1]].signature = "Used"
             /\ m[list[i]] = HeapHeader("Used", AlignSize(last.size, last.align))
             /\ m[list[i + 1]].signature = "Empty"
             /\ m[list[i + 2]].signature = "EndEdge"

\* ---------------------------------------------------------------------- C19
\* The rounding of HeapBlock::alloc on its own: a call enters with a size
\* and a nonzero align and rounds; each time the walk ends at the EndEdge
\* of a block the call recurses into the next block with the rounded size,
\* which is rounded again.  placed holds the sizes after each rounding.
AlignInit ==
    /\ g_heap_initialized = FALSE
    /\ mapped = NoHeap.mapped
    /\ m_prev = NoHeap.m_prev
    /\ m_next = NoHeap.m_next
    /\ m_data = NoHeap.m_data
    /\ big = NoHeap.big
    /\ status = "running"
    /\ live = {}
    /\ stale = NULL
    /\ misused = FALSE
    /\ calls = 0
    /\ \E size \in 0 .. MaxSize, align \in 1 .. MaxAlign :
          last = [op |-> "alloc", size |-> size, align |-> align,
                  placed |-> <<>>]

AllocRounds ==
    /\ last.placed = <<>>
    /\ last' = [last EXCEPT !.placed = <<AlignSize(last.size, last.align)>>]
    /\ UNCHANGED <<g_heap_initialized, mapped, m_prev, m_next, m_data, big,
                   status, live, stale, misused, calls>>

AllocRecurses ==
    /\ last.placed # <<>>
    /\ Len(last.placed) < MaxSlabs
    /\ last' = [last EXCEPT !.placed =
                   Append(@, AlignSize(@[Len(@)], max(PtrSize, last.align)))]
    /\ UNCHANGED <<g_heap_initialized, mapped, m_prev, m_next, m_data, big,
                   status, live, stale, misused, calls>>

AlignNext == AllocRounds \/ AllocRecurses

AlignSpec == AlignInit /\ [][AlignNext]_vars

\* C19: for every size and every nonzero align, the size HeapBlock::alloc
\* places is the smallest multiple of max(align, PtrSize) that is >= the
\* size asked for, and rounding it again in the recursion into the next
\* block leaves it unchanged.
RoundsToAlignMultiple ==
    last.placed # <<>> =>
       LET a == max(PtrSize, last.align)
       IN /\ last.placed[1] % a = 0
          /\ last.placed[1] >= last.size
          /\ last.placed[1] < last.size + a
          /\ \A i \in DOMAIN last.placed : last.placed[i] = last.placed[1]

\* ---------------------------------------------------------------------- C20
\* The big-block path of my_malloc and my_free with the widths of the
\* code: size and the length handed to mmap are size_t, HeapHeader::size
\* is u32.  A number is written <<high, low>> for high * Base + low, so
\* that 2^32 and its neighbours can be told apart.
Base == 65536

Wide(k) == <<k \div Base, k % Base>>

\* w + k on size_t, for the sizes drawn here (far below 2^64)
WideAdd(w, k) == <<w[1] + (w[2] + k) \div Base, (w[2] + k) % Base>>

\* w > k on size_t, for k < Base
WideGreater(w, k) == w[1] > 0 \/ w[2] > k

\* the conversion of a size_t to u32 in an assignment to HeapHeader::size
U32(w) == <<w[1] % Base, w[2]>>

NoLength == <<>>

\* The sizes asked for: just above the threshold of the big blocks, and on
\* both sides of 2^32 - HeaderSize.
WideSizes ==
    {WideAdd(Wide(heap_block_size - HeaderSize), d) : d \in 1 .. MaxWrap}
    \cup {WideAdd(<<Base - 1, Base - HeaderSize - MaxWrap>>, d) :
             d \in 0 .. 2 * MaxWrap}

BigInit ==
    /\ g_heap_initialized = TRUE
    /\ mapped = Construct(NoHeap, Root, NULL).mapped
    /\ m_prev = Construct(NoHeap, Root, NULL).m_prev
    /\ m_next = Construct(NoHeap, Root, NULL).m_next
    /\ m_data = Construct(NoHeap, Root, NULL).m_data
    /\ big = NoHeap.big
    /\ status = "running"
    /\ live = {}
    /\ stale = NULL
    /\ misused = FALSE
    /\ calls = 0
    /\ \E size \in WideSizes :
          last = [op |-> "none", size |-> size, length |-> NoLength,
                  released |-> NoLength]

\* my_malloc(size) for a size above the threshold, mmap succeeding: the
\* mapping has size + sizeof(HeapHeader) bytes, the header says BigBlock
\* and holds that length as u32.
BigMalloc ==
    /\ last.op = "none"
    /\ WideGreater(last.size, heap_block_size - HeaderSize)
    /\ LET length == WideAdd(last.size, HeaderSize)
       IN /\ big' = [big EXCEPT ![1] = HeapHeader("BigBlock", U32(length))]
          /\ last' = [last EXCEPT !.op = "malloc", !.length = length]
    /\ live' = {BigAddr(1) + HeaderSize}
    /\ calls' = calls + 1
    /\ UNCHANGED <<g_heap_initialized, mapped, m_prev, m_next, m_data,
                   status, stale, misused>>

\* my_free of that address: munmap(header, header->size).  munmap of 0
\* bytes fails and releases nothing; any other length takes the page of
\* the header away.
BigFree ==
    /\ last.op = "malloc"
    /\ big[1].signature = "BigBlock"
    /\ last' = [last EXCEPT !.op = "free", !.released = big[1].size]
    /\ big' = IF big[1].size = Wide(0) THEN big
              ELSE [big EXCEPT ![1] = NoHeap.big[1]]
    /\ live' = {}
    /\ stale' = BigAddr(1) + HeaderSize
    /\ UNCHANGED <<g_heap_initialized, mapped, m_prev, m_next, m_data,
                   status, misused, calls>>

BigNext == BigMalloc \/ BigFree

BigSpec == BigInit /\ [][BigNext]_vars

\* C20: for every request of a size n above the threshold, the length
\* stored in the BigBlock header is n + HeaderSize, the length of the
\* mapping, and my_free unmaps exactly that many bytes.
BigLengthIsMappedLength ==
    /\ last.op = "malloc" =>
          /\ last.length = WideAdd(last.size, HeaderSize)
          /\ big[1] = HeapHeader("BigBlock", last.length)
    /\ last.op = "free" => last.released = last.length

\* ---------------------------------------------------------------------- C21
\* C21: between calls of a running process the chain of blocks is a
\* well-formed doubly linked list: the root has no predecessor, every
\* block with a successor is the predecessor of that successor, the chain
\* from the root has no cycle, and only mapped blocks are on it, also
\* after a block in the middle or at the end of the chain was returned to
\* the OS.
ChainWellFormed ==
    status = "running" =>
       /\ Root \in mapped
       /\ m_prev[Root] = NULL
       /\ \A s \in mapped :
             m_next[s] # NULL =>
                /\ m_next[s] \in mapped
                /\ m_prev[m_next[s]] = s
       /\ Len(Chain) <= MaxSlabs
       /\ \A i, j \in DOMAIN Chain : Chain[i] = Chain[j] => i = j
       /\ \A i \in DOMAIN Chain : Chain[i] \in mapped

\* The last my_free returned the middle block of a chain of three to the
\* OS: every block was mapped once, the released one lay between the root
\* and the block that now follows the root.
ChainWitness ==
    /\ Alive
    /\ last.op = "free" /\ last.grew = -1
    /\ calls = 3
    /\ SlabOf(last.addr) \notin mapped
    /\ Len(Chain) = 2
    /\ SlabOf(last.addr) < Chain[2]
    /\ m_prev[Chain[2]] = Root

====
